---- MODULE Spec2Model ----
(***************************************************************************)
(* Model of src/serialization.py: a decoder for the Java object            *)
(* serialization stream.  A Handler wraps a byte source (a BytesIO), a     *)
(* block-data cursor (pos, end, block_mode, block_data) and the handle     *)
(* table (references).  decode_object reads one tag and delegates to the   *)
(* decode method of the record class.                                      *)
(*                                                                         *)
(* The decode methods are recursive functions of the handler; they are     *)
(* modelled as RECURSIVE operators that thread a machine record m:         *)
(*   io, iop        the byte source and its read position                  *)
(*   pos, end, block_mode, block_data, references, header                  *)
(*                  the fields of Handler                                  *)
(*   heap           every Python object created so far, by creation order; *)
(*                  an object is named by its index in heap                *)
(*   ret            the value returned by the last call                    *)
(*   err            "" or the exception that was raised                    *)
(* A raised exception propagates: every operator leaves a machine whose    *)
(* err is set untouched.                                                   *)
(***************************************************************************)
EXTENDS Integers, Sequences, FiniteSets, TLC

VARIABLES handler, plain, phase

vars == <<handler, plain, phase>>

(***************************************************************************)
(* class Constants                                                         *)
(***************************************************************************)
STREAM_MAGIC == 44269
STREAM_VERSION == 5
TC_NULL == 112
TC_REFERENCE == 113
TC_CLASSDESC == 114
TC_OBJECT == 115
TC_STRING == 116
TC_ARRAY == 117
TC_CLASS == 118
TC_BLOCKDATA == 119
TC_ENDBLOCKDATA == 120
TC_RESET == 121
TC_BLOCKDATALONG == 122
TC_EXCEPTION == 123
TC_LONGSTRING == 124
TC_PROXYCLASSDESC == 125
TC_ENUM == 126
BASE_WIRE_HANDLE == 8257536

\* Python strings are sequences of character codes.
str_byte == <<98, 121, 116, 101>>
str_char == <<99, 104, 97, 114>>
str_double == <<100, 111, 117, 98, 108, 101>>
str_float == <<102, 108, 111, 97, 116>>
str_int == <<105, 110, 116>>
str_long == <<108, 111, 110, 103>>
str_short == <<115, 104, 111, 114, 116>>
str_boolean == <<98, 111, 111, 108, 101, 97, 110>>

\* 'B' 'C' 'D' 'F' 'I' 'J' 'S' 'Z'
PRIMITIVE_TYPES ==
  (66 :> str_byte) @@ (67 :> str_char) @@ (68 :> str_double) @@
  (70 :> str_float) @@ (73 :> str_int) @@ (74 :> str_long) @@
  (83 :> str_short) @@ (90 :> str_boolean)

str_array == <<97, 114, 114, 97, 121>>
str_object == <<111, 98, 106, 101, 99, 116>>

\* '[' 'L'
OBJECT_TYPES == (91 :> str_array) @@ (76 :> str_object)

TYPES == PRIMITIVE_TYPES @@ OBJECT_TYPES

(***************************************************************************)
(* Python values                                                           *)
(***************************************************************************)
None == [k |-> "None", v |-> 0]
PyInt(n) == [k |-> "int", v |-> n]
Bool(b) == [k |-> "bool", v |-> IF b THEN 1 ELSE 0]
Bytes(b) == [k |-> "bytes", v |-> b]
Str(s) == [k |-> "str", v |-> s]
Obj(i) == [k |-> "obj", v |-> i]
False == [k |-> "bool", v |-> 0]

Raise(m, e) == [m EXCEPT !.err = e]
Return(m, x) == [m EXCEPT !.ret = x]
Ok(m) == m.err = ""

\* the statement after a call runs only when the call did not raise
Then(m, rest(_)) == IF Ok(m) THEN rest(m) ELSE m

\* x.__class__ : the class name of an object, NoneType, int, ...
ClassOf(m, x) == IF x.k = "obj" THEN m.heap[x.v].cls ELSE x.k

\* X() : create an object; ret names it
New(m, rec) ==
  [m EXCEPT !.heap = Append(@, rec), !.ret = Obj(Len(m.heap) + 1)]

SetAttr(m, self, f, x) == [m EXCEPT !.heap[self.v] = [@ EXCEPT ![f] = x]]

Min(a, b) == IF a < b THEN a ELSE b

(***************************************************************************)
(* The operators of the decoder call each other recursively.               *)
(***************************************************************************)
RECURSIVE decode_object(_)
RECURSIVE refill(_)
RECURSIVE read_struct(_, _)
RECURSIVE read_byte(_)
RECURSIVE read_short(_)
RECURSIVE read_int(_)
RECURSIVE read_long(_)
RECURSIVE read_primitive(_, _)
RECURSIVE skip(_, _)
RECURSIVE String_decode(_, _)
RECURSIVE String_loop(_, _, _)
RECURSIVE Field_decode(_, _)
RECURSIVE ClassDesc_decode(_, _)
RECURSIVE NewClassDesc_decode(_, _)
RECURSIVE NewClassDesc_fields(_, _, _)
RECURSIVE NewObject_decode(_, _)
RECURSIVE decode_class_data(_, _, _)
RECURSIVE decode_class_fields(_, _, _, _)
RECURSIVE NewArray_decode(_, _)
RECURSIVE NewArray_loop(_, _, _, _)
RECURSIVE Enum_decode(_, _)
RECURSIVE NewClass_decode(_, _)
RECURSIVE JavaException_decode(_, _)
RECURSIVE BlockData_decode(_, _)
RECURSIVE ProxyClassDesc_decode(_, _)
RECURSIVE ProxyClassDesc_loop(_, _, _)
RECURSIVE Reference_decode(_, _)

(***************************************************************************)
(* class Handler                                                           *)
(***************************************************************************)

\* BytesIO.read(ln) on the underlying source: the bytes read
io_bytes(m, ln) ==
  IF m.iop >= Len(m.io) THEN <<>>
  ELSE SubSeq(m.io, m.iop + 1, Min(m.iop + ln, Len(m.io)))

\* BytesIO.read(ln) on the underlying source: the position afterwards
io_advance(m, ln) == [m EXCEPT !.iop = @ + Len(io_bytes(m, ln))]

\* BytesIO.read(ln) on the frame's own BytesIO
frame_bytes(bd, ln) ==
  IF bd.iop >= Len(bd.content) THEN <<>>
  ELSE SubSeq(bd.content, bd.iop + 1, Min(bd.iop + ln, Len(bd.content)))

\* the mode switched before the unread bytes are looked at
set_block_data_mode_eager(m, newmode) ==
  IF ~Ok(m) THEN m
  ELSE IF newmode = m.block_mode THEN Return(m, None)
  ELSE IF newmode
    THEN [m EXCEPT !.pos = 0, !.end = 0, !.block_mode = newmode,
                   !.ret = Bool(~newmode)]
  ELSE IF m.pos < m.end
    THEN Raise([m EXCEPT !.block_mode = newmode],
               "Exception: unread block data")
  ELSE [m EXCEPT !.block_mode = newmode, !.ret = Bool(~newmode)]

set_block_data_mode(m, newmode) ==
  IF ~Ok(m) THEN m
  ELSE IF newmode = m.block_mode THEN Return(m, None)
  ELSE IF newmode
    THEN [m EXCEPT !.pos = 0, !.end = 0, !.block_mode = newmode,
                   !.ret = Bool(~newmode)]
  ELSE IF m.pos < m.end THEN Raise(m, "Exception: unread block data")
  ELSE [m EXCEPT !.block_mode = newmode, !.ret = Bool(~newmode)]

get_unread(m) == m.end - m.pos

\* io.seek(n, 1) returns the new absolute position
skip(m, n) ==
  IF ~Ok(m) THEN m
  ELSE IF n > 0
    THEN LET sk == m.iop + n
         IN IF sk = 0 THEN Raise(m, "EOFError")
            ELSE skip([m EXCEPT !.iop = sk], n - sk)
  ELSE Return(m, None)

refill(m) ==
  IF ~Ok(m) THEN m
  ELSE IF ~m.block_mode THEN Raise(m, "Exception: Refilling disabled")
  ELSE
    Then(skip(m, get_unread(m)), LAMBDA m1 :
    Then(set_block_data_mode(m1, FALSE), LAMBDA m2 :
    Then(decode_object(m2), LAMBDA m3 :
    Then(set_block_data_mode(m3, TRUE), LAMBDA m4 :
      IF ClassOf(m4, m3.ret) \notin {"BlockData", "BlockDataLong"}
        THEN Raise(m4, "Exception: Invalid block data")
      ELSE [m4 EXCEPT !.block_data = m3.ret, !.pos = 0,
                      !.end = m4.heap[m3.ret.v].size, !.ret = None]))))

\* struct.calcsize; 0 stands for struct.error (bad char in struct format)
calcsize(unpack) ==
  CASE unpack = ">B" -> 1
    [] unpack = ">?" -> 1
    [] unpack = ">ss" -> 2
    [] unpack = ">H" -> 2
    [] unpack = ">HH" -> 4
    [] OTHER -> 0

\* struct.unpack: a tuple of values
unpack_bytes(unpack, ba) ==
  CASE unpack = ">B" -> <<PyInt(ba[1])>>
    [] unpack = ">?" -> <<Bool(ba[1] # 0)>>
    [] unpack = ">ss" -> <<Bytes(ba[1]), Bytes(ba[2])>>
    [] unpack = ">H" -> <<PyInt(ba[1] * 256 + ba[2])>>
    [] unpack = ">HH" -> <<PyInt(ba[1] * 256 + ba[2]), PyInt(ba[3] * 256 + ba[4])>>

read_struct(m, unpack) ==
  IF ~Ok(m) THEN m
  ELSE IF calcsize(unpack) = 0 THEN Raise(m, "struct.error")
  ELSE
    Then(IF m.block_mode /\ m.pos = m.end THEN refill(m) ELSE m, LAMBDA m1 :
      IF m1.block_mode
        THEN IF m1.block_data.k # "obj" \/ ~m1.heap[m1.block_data.v].hasio
               THEN Raise(m1, "AttributeError")
             ELSE
               LET ln == calcsize(unpack)
                   ba == frame_bytes(m1.heap[m1.block_data.v], ln)
                   m2 == [m1 EXCEPT !.heap[m1.block_data.v].iop = @ + Len(ba)]
               IN IF Len(ba) # ln THEN Raise(m2, "EOFError")
                  ELSE [m2 EXCEPT !.pos = @ + ln,
                                  !.ret = unpack_bytes(unpack, ba)]
      ELSE
        LET ln == calcsize(unpack)
            ba == io_bytes(m1, ln)
            m2 == io_advance(m1, ln)
        IN IF Len(ba) # ln THEN Raise(m2, "EOFError")
           ELSE [m2 EXCEPT !.pos = @ + ln, !.ret = unpack_bytes(unpack, ba)])

\* (value,) = t : unpacking a tuple into one name
unpack1(m) ==
  IF ~Ok(m) THEN m
  ELSE IF Len(m.ret) # 1 THEN Raise(m, "ValueError")
  ELSE Return(m, m.ret[1])

read_boolean(m) == unpack1(read_struct(m, ">?"))

read_byte(m) == unpack1(read_struct(m, ">B"))

read_char(m) == unpack1(read_struct(m, ">ss"))

read_double(m) == unpack1(read_struct(m, ">D"))

read_float(m) == unpack1(read_struct(m, ">F"))

\* the reading the comment in read_short warns against: both bytes at once
read_short_unsplit(m) == unpack1(read_struct(m, ">H"))

read_short(m) ==
  Then(read_byte(m), LAMBDA m1 :
  Then(read_byte(m1), LAMBDA m2 :
    Return(m2, PyInt(m1.ret.v * 256 + m2.ret.v))))

read_int(m) ==
  Then(read_short(m), LAMBDA m1 :
  Then(read_short(m1), LAMBDA m2 :
    Return(m2, PyInt(m1.ret.v * 65536 + m2.ret.v))))

\* (v1 << 32) + v2.  The integers of the model are 32 bits wide: a value
\* that does not fit is kept as the pair of its halves.
shl32_add(v1, v2) ==
  IF v1 = 0 THEN PyInt(v2) ELSE [k |-> "bigint", v |-> <<v1, v2>>]

read_long(m) ==
  Then(read_int(m), LAMBDA m1 :
  Then(read_int(m1), LAMBDA m2 :
    Return(m2, shl32_add(m1.ret.v, m2.ret.v))))

IsStr(t, s) == t.k = "str" /\ t.v = s

read_primitive(m, primitive_type) ==
  IF ~Ok(m) THEN m
  ELSE IF IsStr(primitive_type, str_byte) THEN read_byte(m)
  ELSE IF IsStr(primitive_type, str_char) THEN read_char(m)
  ELSE IF IsStr(primitive_type, str_double) THEN read_double(m)
  ELSE IF IsStr(primitive_type, str_float) THEN read_float(m)
  ELSE IF IsStr(primitive_type, str_int) THEN read_int(m)
  ELSE IF IsStr(primitive_type, str_long) THEN read_long(m)
  ELSE IF IsStr(primitive_type, str_short) THEN read_short(m)
  ELSE IF IsStr(primitive_type, str_boolean) THEN read_boolean(m)
  ELSE decode_object(m)

read_object(m) == decode_object(m)

add_reference(m, reference) ==
  IF ~Ok(m) THEN m ELSE [m EXCEPT !.references = Append(@, reference)]

\* self.references[reference]: a negative index counts from the end
get_reference(m, reference) ==
  LET n == Len(m.references)
  IN IF ~Ok(m) THEN m
     ELSE IF reference >= 0 /\ reference < n
       THEN Return(m, m.references[reference + 1])
     ELSE IF reference < 0 /\ reference >= -n
       THEN Return(m, m.references[n + reference + 1])
     ELSE Raise(m, "IndexError")

(***************************************************************************)
(* The record classes: the object each constructor creates                 *)
(***************************************************************************)
NewBlockData(c) ==
  [cls |-> c, size |-> 0, content |-> <<>>, hasio |-> FALSE, iop |-> 0]
NewClassDescWrapper == [cls |-> "ClassDesc", content |-> None]
NewEndBlockData == [cls |-> "EndBlockData"]
NewEnum == [cls |-> "Enum", description |-> None, name |-> None]
NewField ==
  [cls |-> "Field", code |-> PyInt(0), type |-> PyInt(0), field_name |-> None,
   field_type |-> None]
NewHeader ==
  [cls |-> "Header", magic |-> STREAM_MAGIC, version |-> STREAM_VERSION]
NewJavaException == [cls |-> "JavaException", exception |-> None]
NewLongString == [cls |-> "LongString", content |-> Str(<<>>)]
NewNewArray ==
  [cls |-> "NewArray", new_class_desc |-> None, size |-> 0, type |-> Str(<<>>),
   contents |-> <<>>]
NewNewClass == [cls |-> "NewClass", class_desc |-> None]
NewNewClassDesc ==
  [cls |-> "NewClassDesc", class_name |-> Str(<<>>),
   serial_version_uid |-> PyInt(0),
   flags |-> 0, fields |-> <<>>, super_class |-> None]
NewNewObject == [cls |-> "NewObject", class_desc |-> None, contents |-> <<>>]
NewNull == [cls |-> "Null"]
NewProxyClassDesc ==
  [cls |-> "ProxyClassDesc", ifaces |-> <<>>, super_class |-> None]
NewReference == [cls |-> "Reference", ref |-> 0, obj |-> None]
NewString == [cls |-> "String", content |-> Str(<<>>)]

\* the Reference record kept where its target belongs
Deref_kept(m, x) == x

\* type = type.obj when type is a Reference
Deref(m, x) ==
  IF ClassOf(m, x) = "Reference" THEN m.heap[x.v].obj ELSE x

(***************************************************************************)
(* class BlockData, class BlockDataLong                                    *)
(***************************************************************************)
read_size(m, self) ==
  IF m.heap[self.v].cls = "BlockDataLong" THEN read_int(m) ELSE read_byte(m)

BlockData_decode(m, self) ==
  Then(read_size(m, self), LAMBDA m1 :
    LET size == m1.ret.v
        m2 == SetAttr(m1, self, "size", size)
        content == io_bytes(m2, size)
        m3 == SetAttr(io_advance(m2, size), self, "content", content)
    IN IF size = 0 THEN Return(m2, None)
       ELSE IF Len(content) = 0 \/ Len(content) # size
         THEN Raise(m3, "EOFError")
       ELSE Return(SetAttr(m3, self, "hasio", TRUE), None))

(***************************************************************************)
(* class ClassDesc                                                         *)
(***************************************************************************)
ClassDesc_decode(m, self) ==
  Then(decode_object(m), LAMBDA m1 :
    IF ClassOf(m1, m1.ret) \notin
         {"Null", "Reference", "ProxyClassDesc", "NewClassDesc"}
      THEN Raise(m1, "Exception: Invalid type for class desc")
    ELSE Return(SetAttr(m1, self, "content", Deref(m1, m1.ret)), None))

(***************************************************************************)
(* class String, class LongString                                          *)
(***************************************************************************)
\* for i in range(ln): contents.append(chr(handler.read_byte()))
String_loop(m, ln, contents) ==
  IF ~Ok(m) THEN m
  ELSE IF Len(contents) >= ln THEN Return(m, Str(contents))
  ELSE Then(read_byte(m), LAMBDA m1 :
         String_loop(m1, ln, Append(contents, m1.ret.v)))

String_decode(m, self) ==
  Then(read_short(m), LAMBDA m1 :
    IF m1.ret.v = 0 THEN Return(m1, None)
    ELSE Then(String_loop(m1, m1.ret.v, <<>>), LAMBDA m2 :
           Return(SetAttr(m2, self, "content", m2.ret), None)))

\* range(ln) for a length of 2^32 or more: the source ends first
RangeOf(ln) == IF ln.k = "bigint" THEN 2147483647 ELSE ln.v

LongString_decode(m, self) ==
  Then(read_long(m), LAMBDA m1 :
    IF RangeOf(m1.ret) = 0 THEN Return(m1, None)
    ELSE Then(String_loop(m1, RangeOf(m1.ret), <<>>), LAMBDA m2 :
           Return(SetAttr(m2, self, "content", m2.ret), None)))

(***************************************************************************)
(* class Reference                                                         *)
(***************************************************************************)
Reference_decode(m, self) ==
  Then(read_int(m), LAMBDA m1 :
    LET ref == m1.ret.v - BASE_WIRE_HANDLE
    IN Then(get_reference(SetAttr(m1, self, "ref", ref), ref), LAMBDA m3 :
         Return(SetAttr(m3, self, "obj", m3.ret), None)))

(***************************************************************************)
(* class Field                                                             *)
(***************************************************************************)
is_valid(code) == code \in DOMAIN TYPES
is_object(code) == code \in DOMAIN OBJECT_TYPES
is_primitive(code) == code \in DOMAIN PRIMITIVE_TYPES
get_primitive_type(code) == Str(PRIMITIVE_TYPES[code])

Field_decode(m, self) ==
  Then(read_byte(m), LAMBDA m1 :
    LET code == m1.ret.v
        m2 == SetAttr(m1, self, "code", m1.ret)
        m4 == New(SetAttr(m2, self, "type", Str(TYPES[code])), NewString)
        class_name == m4.ret
    IN IF ~is_valid(code) THEN Raise(m2, "Exception: Invalid type code")
       ELSE
         Then(String_decode(m4, class_name), LAMBDA m5 :
           LET m6 == SetAttr(m5, self, "field_name",
                             m5.heap[class_name.v].content)
           IN IF ~is_object(code) THEN Return(m6, None)
              ELSE
                Then(decode_object(m6), LAMBDA m7 :
                  IF ClassOf(m7, m7.ret) \notin {"String", "Reference"}
                    THEN Raise(m7, "Exception: Invalid type for field")
                  ELSE Return(SetAttr(m7, self, "field_type",
                                      Deref(m7, m7.ret)), None))))

(***************************************************************************)
(* class Enum                                                              *)
(***************************************************************************)
HasContent(m, x) == x.k = "obj" /\ "content" \in DOMAIN m.heap[x.v]

Enum_decode(m, self) ==
  LET m1 == New(m, NewClassDescWrapper)
      description == m1.ret
      m2 == SetAttr(m1, self, "description", description)
  IN Then(ClassDesc_decode(m2, description), LAMBDA m3 :
     Then(decode_object(add_reference(m3, self)), LAMBDA m5 :
       LET type == Deref(m5, m5.ret)
       IN IF ClassOf(m5, m5.ret) \notin {"LongString", "String", "Reference"}
            THEN Raise(m5, "Exception: Invalid type for enum")
          ELSE IF ~HasContent(m5, type) THEN Raise(m5, "AttributeError")
          ELSE Return(SetAttr(m5, self, "name", m5.heap[type.v].content),
                      None)))

(***************************************************************************)
(* class JavaException                                                     *)
(***************************************************************************)
JavaException_decode(m, self) ==
  Then(decode_object(m), LAMBDA m1 :
    Return(SetAttr(m1, self, "exception", Deref(m1, m1.ret)), None))

(***************************************************************************)
(* class NewArray                                                          *)
(***************************************************************************)
\* class_name.index(';'): the 0-based index of the first ';', -1 if none
IndexOfSemi(s) ==
  IF \E i \in 1..Len(s) : s[i] = 59
    THEN (CHOOSE i \in 1..Len(s) : s[i] = 59 /\ \A j \in 1..(i - 1) : s[j] # 59) - 1
  ELSE -1

\* the value array_type returns, or the exception it raises
array_type(m, self) ==
  LET new_class_desc == m.heap[self.v].new_class_desc
      class_name == m.heap[new_class_desc.v].class_name.v
      decoded_type == class_name[2]
  IN IF ClassOf(m, new_class_desc) # "NewClassDesc"
       THEN [err |-> "", val |-> False]
     ELSE IF Len(class_name) = 0 \/ class_name[1] \notin DOMAIN OBJECT_TYPES
             \/ OBJECT_TYPES[class_name[1]] # str_array
       THEN [err |-> "", val |-> False]
     ELSE IF Len(class_name) < 2 THEN [err |-> "IndexError", val |-> None]
     ELSE IF decoded_type \in DOMAIN PRIMITIVE_TYPES
       THEN [err |-> "", val |-> Str(PRIMITIVE_TYPES[decoded_type])]
     ELSE IF decoded_type = 76
       THEN IF IndexOfSemi(class_name) < 0
              THEN [err |-> "ValueError", val |-> None]
            ELSE [err |-> "",
                  val |-> Str(SubSeq(class_name, 3, IndexOfSemi(class_name)))]
     ELSE [err |-> "Exception: Invalid array type", val |-> None]

\* for i in range(self.size): ... contents.append(content)
NewArray_loop(m, size, type, contents) ==
  IF ~Ok(m) THEN m
  ELSE IF Len(contents) >= size THEN Return(m, contents)
  ELSE Then(read_primitive(m, type), LAMBDA m1 :
         NewArray_loop(m1, size, type, Append(contents, Deref(m1, m1.ret))))

NewArray_decode(m, self) ==
  Then(decode_object(m), LAMBDA m1 :
    LET m3 == add_reference(
                SetAttr(m1, self, "new_class_desc", Deref(m1, m1.ret)), self)
        at == array_type(m3, self)
    IN IF ClassOf(m1, m1.ret) \notin {"NewClassDesc", "Reference"}
         THEN Raise(m1, "Exception: Invalid type for class desc")
       ELSE IF at.err # "" THEN Raise(m3, at.err)
       ELSE
         Then(read_int(SetAttr(m3, self, "type", at.val)), LAMBDA m5 :
         Then(NewArray_loop(SetAttr(m5, self, "size", m5.ret.v), m5.ret.v,
                            at.val, <<>>), LAMBDA m7 :
           Return(SetAttr(m7, self, "contents", m7.ret), None))))

(***************************************************************************)
(* class NewClass                                                          *)
(***************************************************************************)
NewClass_decode(m, self) ==
  LET m1 == New(m, NewClassDescWrapper)
      class_desc == m1.ret
      m2 == SetAttr(m1, self, "class_desc", class_desc)
  IN Then(ClassDesc_decode(m2, class_desc), LAMBDA m3 :
       Return(add_reference(m3, self), None))

(***************************************************************************)
(* class NewClassDesc                                                      *)
(***************************************************************************)
\* for i in range(fields_count): field = Field(); field.decode(handler); ...
NewClassDesc_fields(m, fields_count, fields) ==
  IF ~Ok(m) THEN m
  ELSE IF Len(fields) >= fields_count THEN Return(m, fields)
  ELSE LET m1 == New(m, NewField)
           field == m1.ret
       IN Then(Field_decode(m1, field), LAMBDA m2 :
            NewClassDesc_fields(m2, fields_count, Append(fields, field)))

\* the handle assigned once the super-descriptor is decoded
NewClassDesc_decode_late(m, self) ==
  LET m1 == New(m, NewString)
      class_name == m1.ret
  IN
    Then(String_decode(m1, class_name), LAMBDA m2 :
    Then(read_long(SetAttr(m2, self, "class_name",
                           m2.heap[class_name.v].content)), LAMBDA m4 :
    Then(read_byte(SetAttr(m4, self, "serial_version_uid", m4.ret)),
         LAMBDA m6 :
    Then(read_short(SetAttr(m6, self, "flags", m6.ret.v)), LAMBDA m7 :
    Then(NewClassDesc_fields(m7, m7.ret.v, <<>>), LAMBDA m8 :
    Then(decode_object(SetAttr(m8, self, "fields", m8.ret)), LAMBDA m9 :
      IF ClassOf(m9, m9.ret) # "EndBlockData"
        THEN Raise(m9, "Exception: Invalid type for enum")
      ELSE
        LET m10 == New(m9, NewClassDescWrapper)
            super_class == m10.ret
        IN Then(ClassDesc_decode(
                  SetAttr(m10, self, "super_class", super_class), super_class),
                LAMBDA m11 : Return(add_reference(m11, self), None))))))))

NewClassDesc_decode(m, self) ==
  LET m1 == New(m, NewString)
      class_name == m1.ret
  IN
    Then(String_decode(m1, class_name), LAMBDA m2 :
    Then(read_long(SetAttr(m2, self, "class_name",
                           m2.heap[class_name.v].content)), LAMBDA m4 :
    Then(read_byte(add_reference(
                     SetAttr(m4, self, "serial_version_uid", m4.ret), self)),
         LAMBDA m6 :
    Then(read_short(SetAttr(m6, self, "flags", m6.ret.v)), LAMBDA m7 :
    Then(NewClassDesc_fields(m7, m7.ret.v, <<>>), LAMBDA m8 :
    Then(decode_object(SetAttr(m8, self, "fields", m8.ret)), LAMBDA m9 :
      IF ClassOf(m9, m9.ret) # "EndBlockData"
        THEN Raise(m9, "Exception: Invalid type for enum")
      ELSE
        LET m10 == New(m9, NewClassDescWrapper)
            super_class == m10.ret
        IN Then(ClassDesc_decode(
                  SetAttr(m10, self, "super_class", super_class), super_class),
                LAMBDA m11 : Return(m11, None))))))))

(***************************************************************************)
(* class NewObject                                                         *)
(***************************************************************************)
\* a ClassDesc whose content is an object is truthy; None is not
get_class_content(m, class_desc) ==
  LET content == m.heap[class_desc.v].content
  IN IF content.k # "obj" THEN False
     ELSE IF ClassOf(m, content) = "NewClassDesc" THEN content
     ELSE False

\* for field in new_class_desc.fields: ...
decode_class_fields(m, fields, i, contents) ==
  IF ~Ok(m) THEN m
  ELSE IF i > Len(fields) THEN Return(m, contents)
  ELSE LET code == m.heap[fields[i].v].code.v
       IN Then(IF is_primitive(code)
                 THEN read_primitive(m, get_primitive_type(code))
               ELSE decode_object(m), LAMBDA m1 :
            decode_class_fields(m1, fields, i + 1,
              Append(contents, IF is_primitive(code) THEN m1.ret
                               ELSE Deref(m1, m1.ret))))

\* the fields of the class read before those of its super-class
decode_class_data_subfirst(m, new_class_desc, stack) ==
  IF ~Ok(m) THEN m
  ELSE IF new_class_desc.k # "obj" THEN Return(m, <<>>)
  ELSE IF new_class_desc.v \in stack THEN Raise(m, "RecursionError")
  ELSE
    Then(decode_class_fields(m, m.heap[new_class_desc.v].fields, 1, <<>>),
         LAMBDA m1 :
    Then(IF m1.heap[new_class_desc.v].super_class.k = "obj"
           THEN decode_class_data(m1,
                  get_class_content(m1, m1.heap[new_class_desc.v].super_class),
                  stack \cup {new_class_desc.v})
         ELSE Return(m1, <<>>), LAMBDA m2 :
      Return(m2, m1.ret \o m2.ret)))

\* stack is the set of descriptors whose decode_class_data call is active.
\* The descent through super_class reads no byte, so meeting a descriptor
\* that is on the stack means unbounded recursion: Python raises
\* RecursionError.
decode_class_data(m, new_class_desc, stack) ==
  IF ~Ok(m) THEN m
  ELSE IF new_class_desc.k # "obj" THEN Return(m, <<>>)
  ELSE IF new_class_desc.v \in stack THEN Raise(m, "RecursionError")
  ELSE
    Then(IF m.heap[new_class_desc.v].super_class.k = "obj"
           THEN decode_class_data(m,
                  get_class_content(m, m.heap[new_class_desc.v].super_class),
                  stack \cup {new_class_desc.v})
         ELSE Return(m, <<>>), LAMBDA m1 :
      decode_class_fields(m1, m1.heap[new_class_desc.v].fields, 1, m1.ret))

\* the handle assigned once the class data is read
NewObject_decode_late(m, self) ==
  LET m1 == New(m, NewClassDescWrapper)
      class_desc == m1.ret
  IN Then(ClassDesc_decode(SetAttr(m1, self, "class_desc", class_desc),
                           class_desc), LAMBDA m2 :
     Then(decode_class_data(m2, get_class_content(m2, class_desc), {}),
          LAMBDA m4 :
       Return(SetAttr(add_reference(m4, self), self, "contents", m4.ret),
              None)))

NewObject_decode(m, self) ==
  LET m1 == New(m, NewClassDescWrapper)
      class_desc == m1.ret
  IN Then(ClassDesc_decode(SetAttr(m1, self, "class_desc", class_desc),
                           class_desc), LAMBDA m2 :
     Then(decode_class_data(add_reference(m2, self),
                            get_class_content(m2, class_desc), {}),
          LAMBDA m4 :
       Return(SetAttr(m4, self, "contents", m4.ret), None)))

(***************************************************************************)
(* class ProxyClassDesc                                                    *)
(***************************************************************************)
\* for i in range(size): iface = String(); iface.decode(handler); ...
ProxyClassDesc_loop(m, self, i) ==
  IF ~Ok(m) THEN m
  ELSE IF i <= 0 THEN m
  ELSE LET m1 == New(m, NewString)
           iface == m1.ret
       IN Then(String_decode(m1, iface), LAMBDA m2 :
            ProxyClassDesc_loop(
              [m2 EXCEPT !.heap[self.v].ifaces =
                           Append(@, m2.heap[iface.v].content)],
              self, i - 1))

ProxyClassDesc_decode(m, self) ==
  Then(read_int(add_reference(m, self)), LAMBDA m2 :
  Then(ProxyClassDesc_loop(m2, self, m2.ret.v), LAMBDA m3 :
  Then(decode_object(m3), LAMBDA m4 :
    IF ClassOf(m4, m4.ret) # "EndBlockData"
      THEN Raise(m4, "Exception: Invalid type for enum")
    ELSE
      LET m5 == New(m4, NewClassDescWrapper)
          super_class == m5.ret
      IN Then(ClassDesc_decode(
                SetAttr(m5, self, "super_class", super_class), super_class),
              LAMBDA m6 : Return(m6, None)))))

(***************************************************************************)
(* decode_object                                                           *)
(***************************************************************************)
\* x = X(); x.decode(handler); return x
Decoded(m, self) == IF ~Ok(m) THEN m ELSE Return(m, self)

decode_object(m) ==
  Then(read_byte(m), LAMBDA m1 :
    LET tc == m1.ret.v
    IN IF tc = 0 THEN Raise(m1, "Exception: Invalid type code")
       ELSE IF tc = TC_ARRAY
         THEN LET n == New(m1, NewNewArray)
              IN Decoded(NewArray_decode(n, n.ret), n.ret)
       ELSE IF tc = TC_BLOCKDATA
         THEN LET n == New(m1, NewBlockData("BlockData"))
              IN Decoded(BlockData_decode(n, n.ret), n.ret)
       ELSE IF tc = TC_BLOCKDATALONG
         THEN LET n == New(m1, NewBlockData("BlockDataLong"))
              IN Decoded(BlockData_decode(n, n.ret), n.ret)
       ELSE IF tc = TC_CLASS
         THEN LET n == New(m1, NewNewClass)
              IN Decoded(NewClass_decode(n, n.ret), n.ret)
       ELSE IF tc = TC_CLASSDESC
         THEN LET n == New(m1, NewNewClassDesc)
              IN Decoded(NewClassDesc_decode(n, n.ret), n.ret)
       ELSE IF tc = TC_ENDBLOCKDATA THEN New(m1, NewEndBlockData)
       ELSE IF tc = TC_ENUM
         THEN LET n == New(m1, NewEnum)
              IN Decoded(Enum_decode(n, n.ret), n.ret)
       ELSE IF tc = TC_EXCEPTION
         THEN LET n == New(m1, NewJavaException)
              IN Decoded(JavaException_decode(n, n.ret), n.ret)
       ELSE IF tc = TC_LONGSTRING
         THEN LET n == New(m1, NewLongString)
              IN Decoded(add_reference(LongString_decode(n, n.ret), n.ret),
                         n.ret)
       ELSE IF tc = TC_NULL THEN New(m1, NewNull)
       ELSE IF tc = TC_OBJECT
         THEN LET n == New(m1, NewNewObject)
              IN Decoded(NewObject_decode(n, n.ret), n.ret)
       ELSE IF tc = TC_PROXYCLASSDESC
         THEN Raise(m1, "Exception: TC_PROXYCLASSDESC not supported")
       ELSE IF tc = TC_REFERENCE
         THEN LET n == New(m1, NewReference)
              IN Decoded(Reference_decode(n, n.ret), n.ret)
       ELSE IF tc = TC_STRING
         THEN LET n == New(m1, NewString)
              IN Decoded(add_reference(String_decode(n, n.ret), n.ret), n.ret)
       ELSE Return(m1, None))

(***************************************************************************)
(* Handler(io): the constructor                                            *)
(***************************************************************************)
\* Header.decode: (self.magic, self.version) = handler.read_struct(">HH")
Header_decode(m, self) ==
  Then(read_struct(m, ">HH"), LAMBDA m1 :
    Return([m1 EXCEPT !.heap[self.v].magic = m1.ret[1].v,
                      !.heap[self.v].version = m1.ret[2].v], None))

Handler_init(io) ==
  LET m0 == [io |-> io, iop |-> 0, pos |-> 0, end |-> 0, block_mode |-> FALSE,
             block_data |-> None, references |-> <<>>, header |-> None,
             heap |-> <<>>, ret |-> None, err |-> ""]
      m1 == New(m0, NewHeader)
  IN Header_decode([m1 EXCEPT !.header = m1.ret], m1.ret)

(***************************************************************************)
(* Byte sources                                                            *)
(***************************************************************************)
MaxPayload == 4
MaxFrames == 3

RECURSIVE Flatten(_)
Flatten(ss) == IF ss = <<>> THEN <<>> ELSE Head(ss) \o Flatten(Tail(ss))

GoodHeader == <<172, 237, 0, 5>>

\* the bytes a block-data payload is drawn from
PayloadBytes == {0, 5}

ShortPayloads == UNION {[1..n -> PayloadBytes] : n \in 1..MaxPayload}

\* payloads that begin with the four zero bytes of a small long
Payloads == ShortPayloads \cup {<<0, 0, 0, 0>> \o p : p \in ShortPayloads}

Frame(bytes) == <<TC_BLOCKDATA, Len(bytes)>> \o bytes

\* every way of cutting bytes into at most k consecutive non-empty frames
RECURSIVE Framings(_, _)
Framings(bytes, k) ==
  IF bytes = <<>> THEN {<<>>}
  ELSE IF k = 0 THEN {}
  ELSE UNION {{Frame(SubSeq(bytes, 1, n)) \o rest :
                 rest \in Framings(SubSeq(bytes, n + 1, Len(bytes)), k - 1)} :
              n \in 1..Len(bytes)}

\* the fields of a Handler before the header is read
Blank(io) ==
  [io |-> io, iop |-> 0, pos |-> 0, end |-> 0, block_mode |-> FALSE,
   block_data |-> None, references |-> <<>>, header |-> None,
   heap |-> <<>>, ret |-> None, err |-> ""]

(***************************************************************************)
(* Streams of records.  The encoders write what the decoder reads; the     *)
(* handles inside an item are raw, so what a reference resolves to depends *)
(* on the records before it.                                               *)
(***************************************************************************)
MaxRecords == 4
MaxFields == 1
MaxElems == 2

U16(n) == <<n \div 256, n % 256>>
U32(n) == U16(n \div 65536) \o U16(n % 65536)
U64(n) == <<0, 0, 0, 0>> \o U32(n)

EncNull == <<TC_NULL>>
EncString(str) == <<TC_STRING>> \o U16(Len(str)) \o str
EncRef(h) == <<TC_REFERENCE>> \o U32(h)
EncField(code, name, sig) == <<code>> \o U16(Len(name)) \o name \o sig
EncClassDesc(name, fields, super) ==
  <<TC_CLASSDESC>> \o U16(Len(name)) \o name \o U64(0) \o <<2>>
    \o U16(Len(fields)) \o Flatten(fields) \o <<TC_ENDBLOCKDATA>> \o super
EncObject(desc, values) == <<TC_OBJECT>> \o desc \o values
EncArray(desc, n, elems) == <<TC_ARRAY>> \o desc \o U32(n) \o elems
EncEnum(desc, name) == <<TC_ENUM>> \o desc \o name
EncProxy == <<TC_PROXYCLASSDESC>> \o U32(1) \o U16(1) \o <<65>>
              \o <<TC_ENDBLOCKDATA, TC_NULL>>

SeqsUpTo(S, n) == UNION {[1..k -> S] : k \in 0..n}

\* records that stand alone: Null, String "A", references below, at and
\* above the base handle, an unknown tag, TC_RESET, a proxy descriptor
SmallItems ==
  {EncNull, EncString(<<65>>), EncRef(BASE_WIRE_HANDLE - 1),
   EncRef(BASE_WIRE_HANDLE), EncRef(BASE_WIRE_HANDLE + 1), <<127>>,
   <<TC_RESET>>, EncProxy}

SmallStreams == {Flatten(ss) : ss \in SeqsUpTo(SmallItems, MaxRecords)}

\* a field and the values that may fill its slot
FieldI == [enc |-> EncField(73, <<105>>, <<>>), vals |-> {<<0, 0, 0, 7>>}]
FieldZ == [enc |-> EncField(90, <<122>>, <<>>), vals |-> {<<1>>}]
FieldL ==
  [enc |-> EncField(76, <<97>>, EncString(<<76, 65, 59>>)),
   vals |-> {EncNull, EncString(<<66>>), EncRef(BASE_WIRE_HANDLE + 2), <<127>>}]
FieldChoices == {FieldI, FieldZ, FieldL}

FieldLists == SeqsUpTo(FieldChoices, MaxFields)

RECURSIVE ValueSeqs(_)
ValueSeqs(fl) ==
  IF fl = <<>> THEN {<<>>}
  ELSE {v \o rest : v \in Head(fl).vals, rest \in ValueSeqs(Tail(fl))}

FieldEncs(fl) == [i \in 1..Len(fl) |-> fl[i].enc]

\* a descriptor with its slot values, super-class values first
ClassChoices ==
  {[enc |-> EncNull, vals |-> {<<>>}],
   [enc |-> EncRef(BASE_WIRE_HANDLE), vals |-> {<<>>, <<0, 0, 0, 7>>}]}
  \cup
  {[enc |-> EncClassDesc(<<88>>, FieldEncs(fl), EncNull), vals |-> ValueSeqs(fl)] :
     fl \in FieldLists}
  \cup
  {[enc |-> EncClassDesc(<<88>>, FieldEncs(fl), EncRef(BASE_WIRE_HANDLE)),
    vals |-> ValueSeqs(fl)] : fl \in FieldLists}
  \cup
  {[enc |-> EncClassDesc(<<89>>, FieldEncs(fl),
                         EncClassDesc(<<88>>, FieldEncs(sl), EncNull)),
    vals |-> {sv \o v : sv \in ValueSeqs(sl), v \in ValueSeqs(fl)}] :
     fl \in FieldLists, sl \in FieldLists}

Objects == UNION {{EncObject(c.enc, v) : v \in c.vals} : c \in ClassChoices}

\* an object with one field of each primitive type code, and eight bytes
PrimitiveObjects ==
  {EncObject(EncClassDesc(<<88>>, <<EncField(code, <<102>>, <<>>)>>, EncNull),
             <<0, 0, 0, 0, 0, 1, 2, 3>>) : code \in DOMAIN PRIMITIVE_TYPES}

\* arrays of each primitive type, of objects, and of ill-formed class names
ArrayNames ==
  {<<91, code>> : code \in DOMAIN PRIMITIVE_TYPES}
  \cup {<<91, 76, 65, 59>>, <<91, 76, 105, 110, 116, 59>>, <<91, 76, 65>>,
        <<91>>, <<91, 91, 73>>, <<88>>, <<>>}

ElemChoices ==
  {<<0, 0, 0, 1>>, <<0, 0, 0, 0, 0, 0, 0, 2>>, <<1>>, EncNull,
   EncRef(BASE_WIRE_HANDLE + 1), EncString(<<66>>)}

Arrays ==
  {EncArray(EncClassDesc(name, <<>>, EncNull), Len(es), Flatten(es)) :
     name \in ArrayNames, es \in SeqsUpTo(ElemChoices, MaxElems)}
  \cup {EncArray(EncNull, 0, <<>>), EncArray(EncRef(BASE_WIRE_HANDLE), 1, EncNull)}

Enums ==
  {EncEnum(d, n) :
     d \in {EncNull, EncClassDesc(<<69>>, <<>>, EncNull)},
     n \in {EncString(<<65>>), EncRef(BASE_WIRE_HANDLE), EncRef(BASE_WIRE_HANDLE + 1),
            EncNull}}

\* an object of a class with one object-typed or array-typed field, whose
\* signature is a reference
SignatureRefs ==
  {EncObject(EncClassDesc(<<88>>, <<EncField(code, <<97>>, EncRef(h))>>, EncNull),
             EncNull) :
     code \in DOMAIN OBJECT_TYPES,
     h \in {BASE_WIRE_HANDLE, BASE_WIRE_HANDLE + 1}}

\* an exception record and its payload
Exceptions ==
  {<<TC_EXCEPTION>> \o x :
     x \in {EncNull, EncString(<<66>>), EncRef(BASE_WIRE_HANDLE),
            EncRef(BASE_WIRE_HANDLE + 1), <<127>>}}

Prefixes == {<<>>, EncString(<<65>>), <<TC_CLASS>> \o EncClassDesc(<<88>>, <<>>, EncNull)}
Suffixes == {<<>>, EncRef(BASE_WIRE_HANDLE + 1)}

BigStreams ==
  {pre \o big \o post :
     pre \in Prefixes, big \in Objects \cup PrimitiveObjects \cup Arrays \cup Enums
               \cup Exceptions \cup SignatureRefs,
     post \in Suffixes}

BadHeaders ==
  {<<>>, <<172, 237>>, <<0, 0, 0, 0>>, <<172, 237, 0, 4>>, <<202, 254, 0, 5>>}

Streams ==
  {GoodHeader \o body : body \in SmallStreams \cup BigStreams}
  \cup {hd \o body : hd \in BadHeaders, body \in {<<>>, EncString(<<65>>)}}

(***************************************************************************)
(* The decoder: a Handler is constructed on a byte source and records are  *)
(* pulled from it one at a time.                                           *)
(***************************************************************************)
Init ==
  /\ phase = "new"
  /\ plain = Blank(<<>>)
  /\ \E io \in Streams : handler = Blank(io)

ReadObject ==
  /\ phase = "open"
  /\ Ok(handler)
  /\ handler' = read_object(handler)
  /\ UNCHANGED <<plain, phase>>

(***************************************************************************)
(* The block-data reader: handler reads a framed payload in block mode,    *)
(* plain reads the same payload unframed in stream mode.                   *)
(***************************************************************************)
InitBlock ==
  /\ phase = "new"
  /\ \E p \in Payloads :
       /\ plain = Blank(GoodHeader \o p)
       /\ \E f \in Framings(p, MaxFrames) : handler = Blank(GoodHeader \o f)

Construct ==
  /\ phase = "new"
  /\ handler' = Handler_init(handler.io)
  /\ phase' = IF Ok(handler') THEN "open" ELSE "failed"
  /\ UNCHANGED plain

ConstructPlain ==
  /\ phase = "open"
  /\ plain.header = None
  /\ plain' = Handler_init(plain.io)
  /\ UNCHANGED <<handler, phase>>

EnterBlockMode ==
  /\ phase = "open"
  /\ plain.header # None
  /\ handler' = set_block_data_mode(handler, TRUE)
  /\ phase' = "block"
  /\ UNCHANGED plain

PrimitiveNames ==
  {str_byte, str_boolean, str_short, str_int, str_long}

\* the next n bytes of the plain source, as far as they exist, are all zero
ZeroAhead(n) ==
  \A i \in (plain.iop + 1)..Min(plain.iop + n, Len(plain.io)) : plain.io[i] = 0

\* read_long is evaluated where its value stays below 2^31
InRange(t) == t = str_long => ZeroAhead(4)

ReadPrimitive(t) ==
  /\ phase \in {"block", "read"}
  /\ Ok(handler) /\ Ok(plain)
  /\ InRange(t)
  /\ handler' = read_primitive(handler, Str(t))
  /\ plain' = read_primitive(plain, Str(t))
  /\ phase' = "read"

NextBlock ==
  \/ Construct
  \/ ConstructPlain
  \/ EnterBlockMode
  \/ \E t \in PrimitiveNames : ReadPrimitive(t)

BlockSpec == InitBlock /\ [][NextBlock]_vars

(***************************************************************************)
(* The block-data cursor: a Handler on a source of frames, whose mode is   *)
(* switched, whose frame is refilled and whose bytes are read one by one.  *)
(* phase names the last operation.                                         *)
(***************************************************************************)
\* a BlockDataLong frame
LongFrame(bytes) == <<TC_BLOCKDATALONG>> \o U32(Len(bytes)) \o bytes

\* payloads of at most MaxFrames bytes, cut into frames in every way
ReaderPayloads == UNION {[1..n -> PayloadBytes] : n \in 1..MaxFrames}

ReaderStreams ==
  {GoodHeader \o f : f \in UNION {Framings(p, MaxFrames) : p \in ReaderPayloads}}
  \cup {GoodHeader \o Frame(<<5, 0>>) \o x :
          x \in {EncNull, LongFrame(<<5>>), Frame(<<>>) \o Frame(<<5>>),
                 <<0, 0>> \o Frame(<<5>>)}}

InitReader ==
  /\ phase = "new"
  /\ plain = Blank(<<>>)
  /\ \E io \in ReaderStreams : handler = Blank(io)

ReaderPhases == {"open", "entered", "left", "refilled", "byte"}

SetBlockDataMode(newmode) ==
  /\ phase \in ReaderPhases
  /\ Ok(handler)
  /\ handler' = set_block_data_mode(handler, newmode)
  /\ phase' = IF newmode THEN "entered" ELSE "left"
  /\ UNCHANGED plain

Refill ==
  /\ phase \in ReaderPhases
  /\ Ok(handler)
  /\ handler' = refill(handler)
  /\ phase' = "refilled"
  /\ UNCHANGED plain

ReadByte ==
  /\ phase \in ReaderPhases
  /\ Ok(handler)
  /\ handler' = read_byte(handler)
  /\ phase' = "byte"
  /\ UNCHANGED plain

NextReader ==
  \/ Construct
  \/ \E newmode \in BOOLEAN : SetBlockDataMode(newmode)
  \/ Refill
  \/ ReadByte

ReaderSpec == InitReader /\ [][NextReader]_vars

Next ==
  \/ Construct
  \/ ReadObject

Spec == Init /\ [][Next]_vars

(***************************************************************************)
(* Reading the heap                                                        *)
(***************************************************************************)
Heap == handler.heap
Ids == 1..Len(Heap)
OfClass(c) == {i \in Ids : Heap[i].cls = c}

\* the object has a handle; Handle is its index, from 0, in the handle table
Registered(i) == \E n \in 1..Len(handler.references) : handler.references[n] = Obj(i)
Handle(i) ==
  (CHOOSE n \in 1..Len(handler.references) : handler.references[n] = Obj(i)) - 1

\* the References that were resolved
Resolved == {r \in OfClass("Reference") : Heap[r].obj # None}

\* the tag byte the next pull reads, 0 at the end of the source
NextTag == IF handler.iop < Len(handler.io) THEN handler.io[handler.iop + 1] ELSE 0

\* the source continues with these bytes
StartsWith(bytes) ==
  /\ handler.iop + Len(bytes) <= Len(handler.io)
  /\ SubSeq(handler.io, handler.iop + 1, handler.iop + Len(bytes)) = bytes

\* C1: a Handler is constructed only when the first four bytes are the magic
\* 0xACED and the version 5; any other header makes the construction fail.
HeaderValidated ==
  phase = "open" =>
    /\ Heap[handler.header.v].magic = STREAM_MAGIC
    /\ Heap[handler.header.v].version = STREAM_VERSION

\* C2: a reference is resolved only when its handle lies in
\* BASE .. BASE + (number of handles assigned) - 1; a handle below BASE and a
\* forward handle never resolve to a record.
OutOfRangeReferenceFails ==
  \A r \in Resolved :
    Heap[r].ref >= 0 /\ Heap[r].ref < Len(handler.references)

\* C3: the handle table is dense and append-only, so two references that
\* carry the same handle resolve to the identical record, wherever in the
\* stream they are decoded.
SameHandleSameTarget ==
  \A r1, r2 \in Resolved :
    Heap[r1].ref = Heap[r2].ref => Heap[r1].obj = Heap[r2].obj

\* the descriptor of an object, an array or an enum
DescOf(o) ==
  LET rec == Heap[o]
  IN IF rec.cls = "NewArray" THEN rec.new_class_desc
     ELSE IF rec.cls = "NewObject"
       THEN IF rec.class_desc.k = "obj" THEN Heap[rec.class_desc.v].content
            ELSE None
     ELSE IF rec.description.k = "obj" THEN Heap[rec.description.v].content
     ELSE None

\* the super-descriptor of a NewClassDesc
SuperOf(d) ==
  IF Heap[d].super_class.k = "obj" THEN Heap[Heap[d].super_class.v].content
  ELSE None

\* the NewClassDescs of a super-chain, sub-class first; a chain that comes
\* back to a descriptor it holds ends there
RECURSIVE Chain(_, _)
Chain(d, seen) ==
  IF d.k # "obj" THEN <<>>
  ELSE IF Heap[d.v].cls # "NewClassDesc" \/ d.v \in seen THEN <<>>
  ELSE <<d.v>> \o Chain(SuperOf(d.v), seen \cup {d.v})

\* the records a descriptor is made of: the chain and the field signatures
DescParts(d) ==
  LET ch == Chain(d, {})
      ds == {ch[i] : i \in 1..Len(ch)}
  IN ds \cup {x \in Ids : \E c \in ds : \E f \in 1..Len(Heap[c].fields) :
                 Heap[Heap[c].fields[f].v].field_type = Obj(x)}

Described == OfClass("NewObject") \cup OfClass("NewArray") \cup OfClass("Enum")

\* C4: an object, array or enum gets its handle after its descriptor is
\* decoded and before its values are read: its descriptor's handle is
\* smaller than its own, and a record created after it has a smaller handle
\* only if it is part of that descriptor (so every record met among the
\* values, and the record itself when referred to there, is found above).
HandleBetweenDescriptorAndValues ==
  Ok(handler) =>
    \A o \in Described :
      Registered(o) =>
        /\ DescOf(o).k = "obj" /\ Registered(DescOf(o).v)
             => Handle(DescOf(o).v) < Handle(o)
        /\ \A x \in Ids :
             x > o /\ Registered(x) /\ Handle(x) < Handle(o)
               => x \in DescParts(DescOf(o))

\* an object whose own handle was referred to among its field values holds
\* itself as a slot value
SelfReferenceResolved ==
  /\ Ok(handler)
  /\ \E o \in OfClass("NewObject") :
       /\ \E i \in 1..Len(Heap[o].contents) : Heap[o].contents[i] = Obj(o)
       /\ DescOf(o).k = "obj" /\ DescOf(o).v > o
       /\ Handle(DescOf(o).v) < Handle(o)

\* C5: every byte, boolean, short, int or long read in block mode returns
\* what the same read returns on the unframed bytes in stream mode, and fails
\* exactly when that one does, however the bytes are cut into frames.
BlockTransparency ==
  phase = "read" =>
    /\ handler.err = plain.err
    /\ Ok(handler) => handler.ret = plain.ret

\* an int read across the frames 00 00 | 00 05 gave 5
StraddledInt ==
  /\ phase = "read"
  /\ handler.io = GoodHeader \o Frame(<<0, 0>>) \o Frame(<<0, 5>>)
  /\ handler.ret = PyInt(5)
  /\ handler.pos = 2 /\ handler.end = 2

\* the type codes of the fields of a super-chain, super-class first
RECURSIVE FlatCodes(_)
FlatCodes(ch) ==
  IF ch = <<>> THEN <<>>
  ELSE FlatCodes(Tail(ch))
         \o [f \in 1..Len(Heap[Head(ch)].fields) |->
               Heap[Heap[Head(ch)].fields[f].v].code.v]

\* the value is of the kind the type code declares
KindOf(code, x) ==
  IF code = 90 THEN x.k = "bool"
  ELSE IF code = 66 THEN x.k = "int" /\ x.v < 256
  ELSE IF code \in DOMAIN PRIMITIVE_TYPES THEN x.k \in {"int", "bigint"}
  ELSE x.k \in {"obj", "None"}

RecognizedTags == TC_NULL..TC_ENUM

\* C7: a pull that meets a non-zero tag byte outside 0x70..0x7E fails.
UnknownTagFails ==
  [][(phase = "open" /\ Ok(handler) /\ NextTag # 0
        /\ NextTag \notin RecognizedTags)
       => ~Ok(handler')]_vars

\* C8: a pull that meets tag 0x7D followed by an interface count, the
\* interface names, TC_ENDBLOCKDATA and a super-descriptor returns a
\* ProxyClassDesc that has a handle.
ProxyClassDescDecoded ==
  [][(phase = "open" /\ Ok(handler) /\ StartsWith(EncProxy))
       => /\ Ok(handler')
          /\ ClassOf(handler', handler'.ret) = "ProxyClassDesc"
          /\ Len(handler'.references) = Len(handler.references) + 1]_vars

\* C9: a pull that meets TC_RESET leaves the handle table empty.
ResetClearsHandles ==
  [][(phase = "open" /\ Ok(handler) /\ NextTag = TC_RESET)
       => handler'.references = <<>>]_vars

\* the number of bytes a value of the type code takes on the wire
Width(code) ==
  CASE code = 66 -> 1 [] code = 67 -> 2 [] code = 68 -> 8 [] code = 70 -> 4
    [] code = 73 -> 4 [] code = 74 -> 8 [] code = 83 -> 2 [] code = 90 -> 1

\* an array of one element of the primitive type, up to the element
OneElementArray(code) ==
  EncArray(EncClassDesc(<<91, code>>, <<>>, EncNull), 1, <<>>)

\* C10: a pull that meets an array of one element of a primitive type, with
\* the bytes of the element present, succeeds and reads exactly the width of
\* that type for the element.
PrimitiveElementRead ==
  [][\A code \in DOMAIN PRIMITIVE_TYPES :
       (/\ phase = "open" /\ Ok(handler)
        /\ StartsWith(OneElementArray(code))
        /\ handler.iop + Len(OneElementArray(code)) + Width(code)
             <= Len(handler.io))
       => /\ Ok(handler')
          /\ handler'.iop
               = handler.iop + Len(OneElementArray(code)) + Width(code)]_vars

IsReference(x) == x.k = "obj" /\ Heap[x.v].cls = "Reference"

\* C11: no slot value of a NewObject, no element of a NewArray and no payload
\* of a JavaException is a Reference record, and no Reference record is
\* registered in the handle table.
NoReferenceAmongValues ==
  /\ \A o \in OfClass("NewObject") \cup OfClass("NewArray") :
       \A i \in 1..Len(Heap[o].contents) : ~IsReference(Heap[o].contents[i])
  /\ \A e \in OfClass("JavaException") : ~IsReference(Heap[e].exception)
  /\ \A n \in 1..Len(handler.references) : ~IsReference(handler.references[n])

\* a TC_REFERENCE met among the values of a record was resolved, and the
\* record holds the target
ValueOf(o) ==
  IF Heap[o].cls = "JavaException" THEN {Heap[o].exception}
  ELSE {Heap[o].contents[i] : i \in 1..Len(Heap[o].contents)}

ReferenceReplacedByTarget ==
  /\ Ok(handler)
  /\ \E o \in OfClass("NewObject") \cup OfClass("NewArray")
                \cup OfClass("JavaException") :
       \E r \in Resolved :
         /\ r > o
         /\ Heap[r].obj.k = "obj"
         /\ Heap[r].obj \in ValueOf(o)

\* C12: the body of a decoded ClassDesc is a Null, a NewClassDesc or a
\* ProxyClassDesc; a reference to another kind of record at a
\* class-descriptor position is rejected.
ClassDescBodyIsDescriptor ==
  \A c \in OfClass("ClassDesc") :
    Heap[c].content.k = "obj" =>
      Heap[Heap[c].content.v].cls \in {"Null", "NewClassDesc", "ProxyClassDesc"}

\* C13: a pull that meets a zero byte, or the end of the input, at the tag
\* position of a top-level record signals the end of the stream: it fails
\* neither with the error of an invalid type code nor with the error of a
\* truncated record, and the records decoded before it stay as they were.
EndOfStreamIsClean ==
  [][(/\ phase = "open" /\ Ok(handler)
       /\ SubSeq(handler.io, 1, 4) = GoodHeader
       /\ NextTag = 0)
       => /\ handler'.err \notin {"Exception: Invalid type code", "EOFError"}
          /\ SubSeq(handler'.heap, 1, Len(handler.heap)) = handler.heap
          /\ handler'.references = handler.references]_vars

\* the String created right after a NewClassDesc or a Field is its inline
\* name
InlineNames ==
  {x \in OfClass("String") : Heap[x - 1].cls \in {"NewClassDesc", "Field"}}

\* the NewObjects of the example: an inline descriptor with one object-typed
\* field, whose signature is an inline String, and an inline super-descriptor
ExampleObjects ==
  {o \in OfClass("NewObject") :
     LET ch == Chain(DescOf(o), {})
     IN /\ Registered(o)
        /\ Len(ch) = 2 /\ ch[1] > o /\ ch[2] > ch[1]
        /\ Len(Heap[ch[1]].fields) = 1
        /\ Heap[Heap[ch[1]].fields[1].v].code = PyInt(76)
        /\ Heap[Heap[ch[1]].fields[1].v].field_type.k = "obj"
        /\ Heap[Heap[ch[1]].fields[1].v].field_type.v > ch[1]}

SignatureOf(d) == Heap[Heap[d].fields[1].v].field_type.v

\* C14: a NewClassDesc gets its handle before any record decoded inside it
\* (field signatures, super-descriptor) gets one; a NewClass gets its handle
\* after the records of its descriptor; an inline name gets no handle; and
\* for the object of the example the handles come in the order descriptor,
\* signature String, super-descriptor, object, field values (a value that is
\* no part of the descriptor has a larger handle than the object).
HandleAssignmentOrder ==
  /\ \A x \in InlineNames : ~Registered(x)
  /\ \A d \in OfClass("NewClassDesc") :
       Registered(d) =>
         \A x \in Ids : x > d /\ Registered(x) => Handle(x) > Handle(d)
  /\ \A c \in OfClass("NewClass") :
       Registered(c) =>
         \A x \in DescParts(Heap[Heap[c].class_desc.v].content) :
           x > c /\ Registered(x) => Handle(x) < Handle(c)
  /\ \A o \in ExampleObjects :
       LET ch == Chain(DescOf(o), {})
       IN /\ Handle(SignatureOf(ch[1])) = Handle(ch[1]) + 1
          /\ Handle(ch[2]) = Handle(ch[1]) + 2
          /\ Handle(ch[2]) < Handle(o)
          /\ \A i \in 1..Len(Heap[o].contents) :
               LET v == Heap[o].contents[i]
               IN (/\ v.k = "obj" /\ v.v > o /\ Registered(v.v)
                   /\ v.v \notin DescParts(DescOf(o)))
                    => Handle(v.v) > Handle(o)

\* the object of the example was decoded with a String as its field value,
\* and the five handles are in the order of the claim
ExampleObjectDecoded ==
  /\ Ok(handler)
  /\ \E o \in ExampleObjects :
       LET ch == Chain(DescOf(o), {})
       IN /\ ~Registered(ch[1] + 1)
          /\ \E i \in 1..Len(Heap[o].contents) :
               LET v == Heap[o].contents[i]
               IN /\ v.k = "obj" /\ v.v > o
                  /\ Heap[v.v].cls = "String"
                  /\ Handle(ch[1]) < Handle(SignatureOf(ch[1]))
                  /\ Handle(SignatureOf(ch[1])) < Handle(ch[2])
                  /\ Handle(ch[2]) < Handle(o)
                  /\ Handle(o) < Handle(v.v)

\* the arrays whose class name has '[' at index 0 and 'L' at index 1, with
\* all their elements read
ObjectArrays ==
  {a \in OfClass("NewArray") :
     /\ DescOf(a).k = "obj" /\ Heap[DescOf(a).v].cls = "NewClassDesc"
     /\ Len(Heap[DescOf(a).v].class_name.v) >= 2
     /\ Heap[DescOf(a).v].class_name.v[1] = 91
     /\ Heap[DescOf(a).v].class_name.v[2] = 76
     /\ Heap[a].size > 0 /\ Len(Heap[a].contents) = Heap[a].size}

\* C15: every element of an array whose class name has 'L' at index 1 is
\* decoded as an object through tag dispatch, so it is a record (or what the
\* dispatch returned), never a primitive value, whatever the component-class
\* name is.
ObjectArrayElementsAreRecords ==
  \A a \in ObjectArrays :
    \A i \in 1..Len(Heap[a].contents) :
      Heap[a].contents[i].k \in {"obj", "None"}

\* C16: a TC_ARRAY yields a NewArray only when its class descriptor is a
\* NewClassDesc whose name begins with '['; with any other descriptor the
\* decoding fails.
ArrayDescriptorChecked ==
  Ok(handler) =>
    \A a \in OfClass("NewArray") :
      /\ DescOf(a).k = "obj"
      /\ Heap[DescOf(a).v].cls = "NewClassDesc"
      /\ Len(Heap[DescOf(a).v].class_name.v) >= 1
      /\ Heap[DescOf(a).v].class_name.v[1] = 91

\* C17: the signature stored for a field of type code 'L' or '[' is a String:
\* a reference to another kind of record makes the field decode fail.
FieldSignatureIsString ==
  \A f \in OfClass("Field") :
    Heap[f].field_type.k = "obj" => Heap[Heap[f].field_type.v].cls = "String"

\* the super-chain that starts at descriptor d comes back to a descriptor it
\* holds
Cyclic(d) ==
  LET ch == Chain(Obj(d), {})
      last == SuperOf(ch[Len(ch)])
  IN last.k = "obj" /\ \E i \in 1..Len(ch) : ch[i] = last.v

\* C20: decoding a record ends after a number of steps bounded by the length
\* of the stream: no super-descriptor chain is cyclic, and class-data
\* decoding never recurses without end.
SuperChainFinite ==
  /\ handler.err # "RecursionError"
  /\ \A d \in OfClass("NewClassDesc") : ~Cyclic(d)

\* a whole BlockData frame lies at the position of the underlying source
FrameAhead ==
  /\ NextTag = TC_BLOCKDATA
  /\ handler.iop + 2 <= Len(handler.io)
  /\ handler.iop + 2 + handler.io[handler.iop + 2] <= Len(handler.io)

\* the length of that frame
FrameAheadSize == handler.io[handler.iop + 2]

\* C18: refill() in block mode with unread bytes in the frame (pos < end)
\* succeeds when a frame follows: it takes no byte of the underlying source
\* beyond the current frame but the one following frame, and ends in block
\* mode with pos = 0 and end = the length of the new frame; refill() in
\* stream mode fails.
RefillDiscardsUnread ==
  [][/\ (phase' = "refilled" /\ handler.block_mode
           /\ handler.pos < handler.end /\ FrameAhead)
          => /\ Ok(handler')
             /\ handler'.block_mode
             /\ handler'.pos = 0
             /\ handler'.end = FrameAheadSize
             /\ handler'.iop = handler.iop + 2 + FrameAheadSize
     /\ (phase' = "refilled" /\ ~handler.block_mode) => ~Ok(handler')]_vars

\* C19: set_block_data_mode(False) in block mode fails with "unread block
\* data" and leaves block_mode, pos and end as they were when pos < end, and
\* switches to stream mode when pos = end; set_block_data_mode(True) in
\* stream mode sets pos and end to 0, and the read that follows takes its
\* byte from a frame it has just decoded.
BlockModeSwitch ==
  [][/\ (phase' = "left" /\ handler.block_mode /\ handler.pos < handler.end)
          => /\ handler'.err = "Exception: unread block data"
             /\ handler'.block_mode
             /\ handler'.pos = handler.pos
             /\ handler'.end = handler.end
     /\ (phase' = "left" /\ handler.block_mode /\ handler.pos = handler.end)
          => Ok(handler') /\ ~handler'.block_mode
     /\ (phase' = "entered" /\ ~handler.block_mode)
          => /\ Ok(handler') /\ handler'.block_mode
             /\ handler'.pos = 0 /\ handler'.end = 0
     /\ (phase = "entered" /\ handler.pos = 0 /\ handler.end = 0
           /\ phase' = "byte" /\ Ok(handler'))
          => /\ handler'.block_data.k = "obj"
             /\ handler'.block_data.v > Len(handler.heap)
             /\ handler'.pos = 1
             /\ handler'.ret
                  = PyInt(handler'.heap[handler'.block_data.v].content[1])]_vars

\* leaving block mode was refused with a byte of the frame unread
LeaveRefused ==
  /\ phase = "left"
  /\ handler.err = "Exception: unread block data"
  /\ handler.block_mode
  /\ handler.pos = 1 /\ handler.end = 2
====
